---- MODULE Spec2Model ----
(***************************************************************************)
(* Model of the dejafoo caching proxy (src/index.js): the Lambda handler,  *)
(* its S3-backed cache (getCachedResponse / cacheResponse), the upstream   *)
(* fetch (fetchFromTarget), the cache key (generateCacheKey) and the TTL   *)
(* parser (parseTTL).                                                      *)
(*                                                                         *)
(* Strings are sequences of one-character strings, so that the template    *)
(* literal that builds the key data is a real concatenation.  A missing    *)
(* (undefined / null) string is the empty sequence: every use the code     *)
(* makes of ttl, body, url and Host treats undefined and '' alike          *)
(* (!x, x || '', x ? .. : ..).                                             *)
(***************************************************************************)
EXTENDS Integers, Sequences, FiniteSets, TLC

\* ------------------------------------------------------------------ bounds
\* invocations of the handler in one behaviour
MaxReq == 3
\* clients: each sends one request at a time and keeps the last reply it got
MaxClients == 2
\* S3 and upstream calls that fail in one behaviour
MaxFaults == 1
\* invocations in one behaviour of identical requests that race
MaxRaceReq == 4
\* invocations in one behaviour of a request the handler may refuse
MaxEdgeReq == 2
\* clock ticks in one behaviour
MaxTicks == 2
\* invocations in one behaviour in which every call settles in the end
MaxLiveReq == 2

\* ------------------------------------------------------- program constants
\* process.env.CACHE_TTL_SECONDS || '3600'
DEFAULT_TTL_SECONDS == 3600
\* Date.now() counts milliseconds: ttlSeconds * 1000
MsPerSecond == 1000
\* the resolution of the modelled clock, in milliseconds
TickMs == MsPerSecond \div 2

\* ----------------------------------------------------------------- strings
Digits == {"0", "1", "2", "3", "4", "5", "6", "7", "8", "9"}

DigitVal == [c \in Digits |->
               CASE c = "0" -> 0 [] c = "1" -> 1 [] c = "2" -> 2 [] c = "3" -> 3
                 [] c = "4" -> 4 [] c = "5" -> 5 [] c = "6" -> 6 [] c = "7" -> 7
                 [] c = "8" -> 8 [] c = "9" -> 9]

\* A JavaScript number is exact for every integer below 2^53. Where a value
\* can pass 2^31 - 1 the model keeps it as its decimal digits, least
\* significant first and without leading zeros (zero is the empty sequence).
RECURSIVE Normal(_)
Normal(n) ==
    IF Len(n) = 0 \/ n[Len(n)] # 0 THEN n ELSE Normal(SubSeq(n, 1, Len(n) - 1))

\* n * k + carry on digit sequences
RECURSIVE Times(_, _, _)
Times(n, k, carry) ==
    IF Len(n) = 0
    THEN IF carry = 0 THEN <<>> ELSE <<carry % 10>> \o Times(<<>>, k, carry \div 10)
    ELSE LET p == n[1] * k + carry
         IN  <<p % 10>> \o Times(Tail(n), k, p \div 10)

\* the digits of an integer, and the integer of digits that stay below 2^31
RECURSIVE FromInt(_)
FromInt(i) == IF i = 0 THEN <<>> ELSE <<i % 10>> \o FromInt(i \div 10)

RECURSIVE ToInt(_)
ToInt(n) == IF Len(n) = 0 THEN 0 ELSE n[1] + 10 * ToInt(Tail(n))

\* parseInt(match[1]) of a non-empty digit string
parseInt(ds) == Normal([i \in 1..Len(ds) |-> DigitVal[ds[Len(ds) + 1 - i]]])

\* ttlString.match(/^(\d+)([smhd])$/)
TtlMatches(s) ==
    /\ Len(s) >= 2
    /\ s[Len(s)] \in {"s", "m", "h", "d"}
    /\ \A i \in 1..(Len(s) - 1) : s[i] \in Digits

\* a parseTTL that reads a number without a unit as seconds
parseTTLDigitsBareSeconds(ttlString) ==
    IF Len(ttlString) = 0 THEN FromInt(DEFAULT_TTL_SECONDS)
    ELSE IF \A i \in 1..Len(ttlString) : ttlString[i] \in Digits THEN parseInt(ttlString)
    ELSE IF ~TtlMatches(ttlString) THEN FromInt(DEFAULT_TTL_SECONDS)
    ELSE LET value == parseInt(SubSeq(ttlString, 1, Len(ttlString) - 1))
             unit  == ttlString[Len(ttlString)]
         IN  CASE unit = "s" -> value
               [] unit = "m" -> Normal(Times(value, 60, 0))
               [] unit = "h" -> Normal(Times(value, 3600, 0))
               [] unit = "d" -> Normal(Times(value, 86400, 0))

\* parseTTL, its result as digits
parseTTLDigits(ttlString) ==
    IF Len(ttlString) = 0 THEN FromInt(DEFAULT_TTL_SECONDS)
    ELSE IF ~TtlMatches(ttlString) THEN FromInt(DEFAULT_TTL_SECONDS)
    ELSE LET value == parseInt(SubSeq(ttlString, 1, Len(ttlString) - 1))
             unit  == ttlString[Len(ttlString)]
         IN  CASE unit = "s" -> value
               [] unit = "m" -> Normal(Times(value, 60, 0))
               [] unit = "h" -> Normal(Times(value, 3600, 0))
               [] unit = "d" -> Normal(Times(value, 86400, 0))

\* parseTTL, for the ttl strings whose result stays below 2^31
parseTTL(ttlString) == ToInt(parseTTLDigits(ttlString))

\* host.split('.')[0]
RECURSIVE FirstLabel(_)
FirstLabel(h) ==
    IF Len(h) = 0 \/ h[1] = "." THEN <<>>
    ELSE <<h[1]>> \o FirstLabel(Tail(h))

\* JSON.stringify(queryParams) of the empty object, the only value the handler
\* passes; a non-empty object serializes to something else
JSONStringifyQuery(queryParams) ==
    IF DOMAIN queryParams = {} THEN <<"{", "}">> ELSE <<"{", "...", "}">>

\* crypto.createHash('sha256').update(keyData).digest('hex'): the digest is
\* taken to be collision free, so the key stands for the data that was hashed
Sha256Hex(keyData) == <<"#">> \o keyData

\* ----------------------------------------------------------------- headers
\* an object without properties
EmptyObject == [n \in {} |-> <<>>]

\* String.prototype.toLowerCase on the header names of the model
LowerOf ==
    [n \in {"Host", "Authorization", "Connection", "Content-Type", "Cache-Control",
            "Content-Length", "Keep-Alive", "Upgrade", "Content-Encoding",
            "Transfer-Encoding", "Proxy-Authenticate", "Proxy-Authorization",
            "TE", "Trailers", "ETag", "Expires", "Pragma", "X-Cache",
            "Surrogate-Control", "X-Cache-Key", "X-Cache-Expires-In",
            "X-Response-Time", "X-Cache-Control", "X-Target-URL",
            "Access-Control-Allow-Origin", "Access-Control-Allow-Methods",
            "Access-Control-Allow-Headers", "Accept-Encoding", "Proxy-Connection",
            "X-Forwarded-For", "X-Forwarded-Proto", "X-Forwarded-Port"} |->
       CASE n = "Host" -> "host"
         [] n = "Authorization" -> "authorization"
         [] n = "Connection" -> "connection"
         [] n = "Content-Type" -> "content-type"
         [] n = "Cache-Control" -> "cache-control"
         [] n = "Content-Length" -> "content-length"
         [] n = "Keep-Alive" -> "keep-alive"
         [] n = "Upgrade" -> "upgrade"
         [] n = "Content-Encoding" -> "content-encoding"
         [] n = "Transfer-Encoding" -> "transfer-encoding"
         [] n = "Proxy-Authenticate" -> "proxy-authenticate"
         [] n = "Proxy-Authorization" -> "proxy-authorization"
         [] n = "TE" -> "te"
         [] n = "Trailers" -> "trailers"
         [] n = "ETag" -> "etag"
         [] n = "Expires" -> "expires"
         [] n = "Pragma" -> "pragma"
         [] n = "X-Cache" -> "x-cache"
         [] n = "Surrogate-Control" -> "surrogate-control"
         [] n = "X-Cache-Key" -> "x-cache-key"
         [] n = "X-Cache-Expires-In" -> "x-cache-expires-in"
         [] n = "X-Response-Time" -> "x-response-time"
         [] n = "X-Cache-Control" -> "x-cache-control"
         [] n = "X-Target-URL" -> "x-target-url"
         [] n = "Access-Control-Allow-Origin" -> "access-control-allow-origin"
         [] n = "Access-Control-Allow-Methods" -> "access-control-allow-methods"
         [] n = "Access-Control-Allow-Headers" -> "access-control-allow-headers"
         [] n = "Accept-Encoding" -> "accept-encoding"
         [] n = "Proxy-Connection" -> "proxy-connection"
         [] n = "X-Forwarded-For" -> "x-forwarded-for"
         [] n = "X-Forwarded-Proto" -> "x-forwarded-proto"
         [] n = "X-Forwarded-Port" -> "x-forwarded-port"]

Lower(n) == IF n \in DOMAIN LowerOf THEN LowerOf[n] ELSE n

\* delete obj[name] for every name of a set
DeleteKeys(obj, names) == [n \in (DOMAIN obj) \ names |-> obj[n]]

\* { ...obj, ...more }: a later property replaces an earlier one
Spread(obj, more) == more @@ obj

\* obj.a || obj.b on string properties
Prop(obj, name) == IF name \in DOMAIN obj THEN obj[name] ELSE <<>>

\* --------------------------------------------------------------- cache key
\* the names generateCacheKey deletes from its copy of the headers
CacheKeyDropped ==
    {"connection", "upgrade", "transfer-encoding", "proxy-connection",
     "proxy-authenticate", "proxy-authorization", "te", "trailers", "host",
     "x-forwarded-for", "x-forwarded-proto", "x-forwarded-port",
     "cloudfront-forwarded-proto", "CloudFront-Forwarded-Proto",
     "cloudfront-is-desktop-viewer", "CloudFront-Is-Desktop-Viewer",
     "cloudfront-is-mobile-viewer", "CloudFront-Is-Mobile-Viewer",
     "cloudfront-is-smarttv-viewer", "CloudFront-Is-SmartTV-Viewer",
     "cloudfront-is-tablet-viewer", "CloudFront-Is-Tablet-Viewer",
     "cloudfront-viewer-asn", "CloudFront-Viewer-ASN",
     "cloudfront-viewer-country", "CloudFront-Viewer-Country",
     "x-amz-cf-id", "X-Amz-Cf-Id", "x-amzn-trace-id", "X-Amzn-Trace-Id",
     "via", "Via"}

\* a key that takes the Authorization header in, as cacheableHeaders would
generateCacheKeyWithHeaders(subdomain, targetUrl, queryParams, headers, method, payload, ttl) ==
    Sha256Hex(subdomain \o <<":">> \o method \o <<":">> \o targetUrl \o <<":">>
              \o Prop(DeleteKeys(headers, CacheKeyDropped), "Authorization")
              \o <<":">> \o payload \o <<":">> \o ttl)

\* a key that leaves the ttl string out
generateCacheKeyNoTtl(subdomain, targetUrl, queryParams, headers, method, payload, ttl) ==
    Sha256Hex(subdomain \o <<":">> \o method \o <<":">> \o targetUrl \o <<":">>
              \o JSONStringifyQuery(queryParams) \o <<":">> \o payload)

\* a key that leaves the payload out
generateCacheKeyNoPayload(subdomain, targetUrl, queryParams, headers, method, payload, ttl) ==
    Sha256Hex(subdomain \o <<":">> \o method \o <<":">> \o targetUrl \o <<":">>
              \o JSONStringifyQuery(queryParams) \o <<":">> \o ttl)

\* a key that leaves the subdomain out
generateCacheKeyNoTenant(subdomain, targetUrl, queryParams, headers, method, payload, ttl) ==
    Sha256Hex(method \o <<":">> \o targetUrl \o <<":">> \o JSONStringifyQuery(queryParams)
              \o <<":">> \o payload \o <<":">> \o ttl)

\* `${subdomain}:${method}:${targetUrl}:${JSON.stringify(queryParams)}:${payload || ''}:${ttl || ''}`
\* cacheableHeaders is computed by the code and then left out of the key data
generateCacheKey(subdomain, targetUrl, queryParams, headers, method, payload, ttl) ==
    LET cacheableHeaders == DeleteKeys(headers, CacheKeyDropped)
        keyData == subdomain \o <<":">> \o method \o <<":">> \o targetUrl \o <<":">>
                   \o JSONStringifyQuery(queryParams) \o <<":">> \o payload
                   \o <<":">> \o ttl
    IN  Sha256Hex(keyData)

\* `cache/${cacheKey}/response.json`
S3Key(cacheKey) == <<"cache/">> \o cacheKey \o <<"/response.json">>

\* ---------------------------------------------------------- inbound events
GET == <<"G", "E", "T">>
POST == <<"P", "O", "S", "T">>
UrlU == <<"h", "t", "t", "p", ":", "/", "/", "u">>
HostA == <<"a", ".", "i", "o">>
HostB == <<"b", ".", "i", "o">>

\* the API Gateway event: httpMethod, path, queryStringParameters, headers, body
Event(hostName, host, method, targetUrl, body, ttl, auth, path, extra) ==
    [httpMethod |-> method,
     path |-> path,
     queryStringParameters |->
         (IF Len(targetUrl) = 0 THEN EmptyObject ELSE ("url" :> targetUrl))
         @@ (IF Len(ttl) = 0 THEN EmptyObject ELSE ("ttl" :> ttl))
         @@ (IF Len(extra) = 0 THEN EmptyObject ELSE ("page" :> extra)),
     headers |->
         (IF Len(host) = 0 THEN EmptyObject ELSE (hostName :> host))
         @@ (IF Len(auth) = 0 THEN EmptyObject ELSE ("Authorization" :> auth)),
     body |-> body]

\* the requests of the model: a base request and its variations in the tenant,
\* the headers, the inbound path and query, the ttl, the method and the body
BaseEvent == Event("Host", HostA, GET, UrlU, <<>>, <<"1", "s">>, <<>>, <<"/">>, <<>>)

\* requests that differ from BaseEvent in one part each: the tenant, a header,
\* headers with path and query string, the ttl string, the method; and one
\* that differs from the POST request in its body
OtherTenant == Event("Host", HostB, GET, UrlU, <<>>, <<"1", "s">>, <<>>, <<"/">>, <<>>)
OtherHeader == Event("Host", HostA, GET, UrlU, <<>>, <<"1", "s">>, <<"k">>, <<"/">>, <<>>)
OtherPath == Event("Host", HostA, GET, UrlU, <<>>, <<"1", "s">>, <<"l">>, <<"/", "p">>, <<"2">>)
OtherTtl == Event("Host", HostA, GET, UrlU, <<>>, <<"2", "s">>, <<>>, <<"/">>, <<>>)
OtherMethod == Event("Host", HostA, POST, UrlU, <<>>, <<"1", "s">>, <<>>, <<"/">>, <<>>)
OtherBody == Event("Host", HostA, POST, UrlU, <<"x">>, <<"1", "s">>, <<>>, <<"/">>, <<>>)

Events == {BaseEvent, OtherTenant, OtherHeader, OtherPath, OtherTtl, OtherMethod, OtherBody}

\* the sets of events one run may send: two requests that differ in one part
\* of the request, each of which may be repeated
Scenarios ==
    {{BaseEvent, e} : e \in {OtherTenant, OtherHeader, OtherPath, OtherTtl, OtherMethod}}
    \cup {{OtherMethod, OtherBody}}

\* requests at the edges of what the handler accepts: no url parameter, a url
\* that is not absolute, a url with another scheme, ttl=0s, and ttl strings
\* that parseTTL does not match (none, abc, 5, 1.5h, -3s, 0)
NoUrl == Event("Host", HostA, GET, <<>>, <<>>, <<"1", "s">>, <<>>, <<"/">>, <<>>)
RelativeUrl == Event("Host", HostA, GET, <<"/", "u">>, <<>>, <<"1", "s">>, <<>>, <<"/">>, <<>>)
FtpUrl ==
    Event("Host", HostA, GET, <<"f", "t", "p", ":", "/", "/", "u">>, <<>>, <<"1", "s">>,
          <<>>, <<"/">>, <<>>)
ZeroTtl == Event("Host", HostA, GET, UrlU, <<>>, <<"0", "s">>, <<>>, <<"/">>, <<>>)

UnmatchedTtls ==
    {<<>>, <<"a", "b", "c">>, <<"5">>, <<"1", ".", "5", "h">>, <<"-", "3", "s">>, <<"0">>}

UnmatchedTtl(t) == Event("Host", HostA, GET, UrlU, <<>>, t, <<>>, <<"/">>, <<>>)

\* requests that come with hop-by-hop and forwarding headers, with names in
\* lower case and in the case a browser or API Gateway writes them
WithHeaders(e, more) == [e EXCEPT !.headers = Spread(@, more)]

LowerCaseHops ==
    WithHeaders(Event("host", HostA, GET, UrlU, <<>>, <<"1", "s">>, <<"k">>, <<"/">>, <<>>),
                ("connection" :> <<"c">>) @@ ("te" :> <<"t">>)
                @@ ("proxy-connection" :> <<"p">>)
                @@ ("x-forwarded-for" :> <<"f">>))

MixedCaseHops ==
    WithHeaders(Event("Host", HostA, GET, UrlU, <<>>, <<"1", "s">>, <<"k">>, <<"/">>, <<>>),
                ("Connection" :> <<"c">>) @@ ("Transfer-Encoding" :> <<"t">>)
                @@ ("Accept-Encoding" :> <<"g">>)
                @@ ("X-Forwarded-Proto" :> <<"f">>))

\* a request whose Host is that of BaseEvent in upper case, and a request
\* without a Host header
UpperHost == Event("Host", <<"A", ".", "i", "o">>, GET, UrlU, <<>>, <<"1", "s">>, <<>>, <<"/">>, <<>>)
NoHost == Event("Host", <<>>, GET, UrlU, <<>>, <<"1", "s">>, <<>>, <<"/">>, <<>>)

\* two POST requests whose bodies and ttl strings differ: the body of the one
\* ends with what the ttl string of the other begins with, a ':' between them
ColonBody ==
    Event("Host", HostA, POST, UrlU, <<"x", ":", "1", "s">>, <<"1", "s">>, <<>>, <<"/">>, <<>>)
ColonTtl ==
    Event("Host", HostA, POST, UrlU, <<"x">>, <<"1", "s", ":", "1", "s">>, <<>>, <<"/">>, <<>>)

EdgeEvents ==
    {NoUrl, RelativeUrl, FtpUrl, ZeroTtl, LowerCaseHops, MixedCaseHops, UpperHost, NoHost,
     BaseEvent, ColonBody, ColonTtl}
    \cup {UnmatchedTtl(t) : t \in UnmatchedTtls}

\* one such request, which may be repeated; the request without url may
\* follow a request that is served, the request with the upper-case Host
\* may come with the one with the lower-case Host, and the two requests with
\* a ':' in a field may come together
EdgeScenarios ==
    {{e} : e \in EdgeEvents \ {BaseEvent}}
    \cup {{NoUrl, UnmatchedTtl(<<>>)}, {BaseEvent, UpperHost}, {ColonBody, ColonTtl}}

\* ------------------------------------------------------ upstream responses
\* responses as the upstream puts them on the wire
UpstreamResponses ==
    { [statusCode |-> 200,
       headers |-> ("Content-Type" :> "application/json")
                   @@ ("Cache-Control" :> "public, max-age=60")
                   @@ ("Connection" :> "keep-alive")
                   @@ ("Keep-Alive" :> "timeout=5")
                   @@ ("Content-Length" :> "1")
                   @@ ("ETag" :> "v1"),
       body |-> <<"r">>],
      [statusCode |-> 404,
       headers |-> ("content-type" :> "text/plain")
                   @@ ("cache-control" :> "max-age=5")
                   @@ ("Content-Encoding" :> "gzip")
                   @@ ("Transfer-Encoding" :> "chunked")
                   @@ ("Upgrade" :> "h2c")
                   @@ ("Proxy-Authenticate" :> "Basic")
                   @@ ("Proxy-Authorization" :> "Basic")
                   @@ ("TE" :> "trailers")
                   @@ ("Trailers" :> "Expires")
                   @@ ("Expires" :> "Thu, 01 Jan 2099 00:00:00 GMT"),
       body |-> <<"n">>] }

\* res.headers: Node's parser lower-cases the names of the received headers
IncomingHeaders(wire) ==
    [n \in {Lower(w) : w \in DOMAIN wire} |->
        wire[CHOOSE w \in DOMAIN wire : Lower(w) = n]]

\* a clean-up that deletes the caching headers only
ResponseDroppedCachingOnly == {"cache-control", "content-length"}

\* a clean-up that keeps the upstream's cache-control
ResponseDroppedKeepsCacheControl ==
    {"content-encoding", "content-length", "transfer-encoding", "connection",
     "upgrade", "keep-alive", "proxy-authenticate", "proxy-authorization",
     "te", "trailers"}

\* the names the 'end' handler of fetchFromTarget deletes from res.headers
ResponseDropped ==
    {"content-encoding", "content-length", "transfer-encoding", "connection",
     "upgrade", "keep-alive", "proxy-authenticate", "proxy-authorization",
     "te", "trailers", "cache-control"}

\* what fetchFromTarget resolves with when the response has ended
ResolvedResponse(wire) ==
    LET cleanHeaders == DeleteKeys(IncomingHeaders(wire.headers), ResponseDropped)
    IN  [statusCode |-> wire.statusCode, headers |-> cleanHeaders, body |-> wire.body]

\* the part of a string before the first of some characters
RECURSIVE Before(_, _)
Before(str, stops) ==
    IF Len(str) = 0 \/ str[1] \in stops THEN <<>>
    ELSE <<str[1]>> \o Before(Tail(str), stops)

\* new URL(targetUrl).host of a url of the form scheme://authority...
UrlHost(targetUrl) ==
    LET scheme == Before(targetUrl, {":"})
    IN  Before(SubSeq(targetUrl, Len(scheme) + 4, Len(targetUrl)), {"/", "?", "#"})

\* the names fetchFromTarget deletes from its copy of the request headers
RequestDropped ==
    {"connection", "upgrade", "transfer-encoding", "proxy-connection",
     "proxy-authenticate", "proxy-authorization", "te", "trailers", "host"}

Identity == <<"i", "d", "e", "n", "t", "i", "t", "y">>

\* options.headers of fetchFromTarget: the copy of the request headers without
\* the deleted names, with host set to the target's and Accept-Encoding added
OutboundHeaders(headers, targetUrl) ==
    LET cleanHeaders == DeleteKeys(headers, RequestDropped)
    IN  Spread(Spread(cleanHeaders, "host" :> UrlHost(targetUrl)),
               "Accept-Encoding" :> Identity)

\* the header lines http.request writes: setHeader keeps one value per name,
\* compared without case, and a later property replaces an earlier one; host
\* and Accept-Encoding are the last properties of their names
OnTheWire(headers) ==
    [n \in {Lower(m) : m \in DOMAIN headers} |->
        IF n = "host" THEN headers["host"]
        ELSE IF n = "accept-encoding" THEN headers["Accept-Encoding"]
        ELSE headers[CHOOSE m \in DOMAIN headers : Lower(m) = n]]

\* new URL(targetUrl) succeeds: the string starts with a scheme and a colon
UrlParses(targetUrl) ==
    \E i \in 2..Len(targetUrl) :
        /\ targetUrl[i] = ":"
        /\ \A j \in 1..(i - 1) : targetUrl[j] \notin {":", "/", "?", "#"}
        /\ targetUrl[1] \notin Digits

\* ------------------------------------------------------------------- state
VARIABLES
    now,      \* Date.now(), in milliseconds
    store,    \* the S3 bucket: object key -> object
    req,      \* per client, its invocation of exports.handler: position, locals
              \* and, once it has returned, the reply
    obs,      \* what each invocation observed (history, read by no action)
    writer,   \* for each object key, the last put applied to it: the client and
              \* the event of the invocation, the time it read when it built the
              \* item (history)
    run       \* the events sent so far, their number, and how many S3 or
              \* upstream calls have failed, whether two invocations overlapped (history)

vars == <<now, store, req, obs, writer, run>>

Reqs == 1..MaxClients

NoValue == [none |-> TRUE]

IdleReq ==
    [pc |-> "idle", event |-> NoValue, ttlSeconds |-> 0, cacheKey |-> <<>>,
     cachedResponse |-> NoValue, sent |-> NoValue, response |-> NoValue,
     cacheItem |-> NoValue, reply |-> NoValue]

\* repeat: whether an earlier invocation of the behaviour agreed with this one
\* on tenant, method, target url, body and ttl string; saw: what its getObject
\* found; window: when it got that answer, whether the last entry put under
\* its key was inside its TTL or after it ("none": nothing was put yet);
\* readFrom: the event of the invocation that put the entry it read; reap:
\* whether its deleteObject was applied ("done") or rejected ("failed"); put:
\* the same for its putObject; ops: the awaited operations that have settled,
\* in the order they settled; log: what it has written with console.log and
\* console.error, a text and the value printed with it; entry: cachedAt and
\* expiresAt of the unexpired entry its getObject returned
NoObs ==
    [repeat |-> FALSE, saw |-> "none", window |-> "none", readFrom |-> NoValue,
     reap |-> "none", put |-> "none", ops |-> <<>>, log |-> <<>>, entry |-> <<>>]

\* the state of an invocation that has replied: its locals are gone
Replied(rq, reply) == [IdleReq EXCEPT !.pc = "done", !.event = rq.event, !.reply = reply]

Init ==
    /\ now = 0
    /\ store = EmptyObject
    /\ req = [r \in Reqs |-> IdleReq]
    /\ obs = [r \in Reqs |-> NoObs]
    /\ writer = EmptyObject
    /\ run = [events |-> {}, started |-> 0, faults |-> 0, overlapped |-> FALSE]

\* the messages of the errors fetchFromTarget rejects with
UpstreamFailures == {"connect ECONNREFUSED", "Request timeout"}

InFlight == {r \in Reqs : req[r].pc \notin {"idle", "done"}}

\* one more call may fail
MayFail == run.faults < MaxFaults

Failed == [run EXCEPT !.faults = @ + 1]

\* ----------------------------------------------------------------- replies
\* JSON.stringify of an object: the text lists the members of the object, a
\* name and a value each; the values hold finite numbers, strings, arrays and
\* objects of strings, which JSON writes as they are
RECURSIVE Members(_, _)
Members(object, names) ==
    IF names = {} THEN <<>>
    ELSE LET n == CHOOSE m \in names : TRUE
         IN  <<<<n, object[n]>>>> \o Members(object, names \ {n})

JSONStringify(cacheItem) == Members(cacheItem, DOMAIN cacheItem)

\* a JSON.parse that loses the members of the headers object
JSONParseNoHeaders(body) ==
    [n \in {body[i][1] : i \in 1..Len(body)} |->
        LET i == CHOOSE j \in 1..Len(body) :
                     body[j][1] = n /\ \A l \in (j + 1)..Len(body) : body[l][1] # n
        IN  IF n = "headers" THEN EmptyObject ELSE body[i][2]]

\* JSON.parse(result.Body.toString()): the object of the members of the text,
\* the last one of a name counting
JSONParse(body) ==
    [n \in {body[i][1] : i \in 1..Len(body)} |->
        LET i == CHOOSE j \in 1..Len(body) :
                     body[j][1] = n /\ \A l \in (j + 1)..Len(body) : body[l][1] # n
        IN  body[i][2]]

CorsAll ==
    ("Access-Control-Allow-Origin" :> "*")
    @@ ("Access-Control-Allow-Methods" :> "GET, POST, PUT, DELETE, OPTIONS")
    @@ ("Access-Control-Allow-Headers" :> "Content-Type, Authorization, X-Requested-With")

NoStore ==
    ("Cache-Control" :> "no-cache, no-store, must-revalidate, private, max-age=0, s-maxage=0")
    @@ ("Pragma" :> "no-cache")
    @@ ("Expires" :> "0")
    @@ ("Surrogate-Control" :> "no-store")
    @@ ("X-Cache-Control" :> "no-cache, no-store, must-revalidate")

\* a reply to a request without the url parameter that the catch block of the
\* handler could have built
MissingUrlReplyAsError ==
    [statusCode |-> 500,
     headers |-> ("Content-Type" :> "application/json")
                 @@ ("Access-Control-Allow-Origin" :> "*"),
     body |-> JSONStringify(
         [error |-> "Internal server error",
          message |-> "Missing required parameter: url"])]

\* the reply to a request without the url parameter
MissingUrlReply ==
    [statusCode |-> 400,
     headers |-> ("Content-Type" :> "application/json") @@ CorsAll,
     body |-> JSONStringify(
         [error |-> "Missing required parameter: url",
          usage |-> "https://{subdomain}.dejafoo.io?url={target_url}&ttl={duration}",
          examples |->
              <<"https://myapp.dejafoo.io?url=https://api.example.com/data&ttl=1h",
                "https://test.dejafoo.io?url=https://jsonplaceholder.typicode.com/todos/1&ttl=2d">>])]

\* the reply built by the catch block of the handler
ErrorReply(message) ==
    [statusCode |-> 500,
     headers |-> ("Content-Type" :> "application/json")
                 @@ ("Access-Control-Allow-Origin" :> "*"),
     body |-> JSONStringify([error |-> "Internal server error", message |-> message])]

Max(a, b) == IF a >= b THEN a ELSE b

\* the reply to a request served from the cache; clock is the handler's own
\* reading of Date.now(), taken after getCachedResponse has returned
HitReply(cachedResponse, cacheKey, clock) ==
    LET expiresAt == IF cachedResponse.expiresAt # 0 THEN cachedResponse.expiresAt
                     ELSE clock + (cachedResponse.ttl * MsPerSecond)
        timeUntilExpiry == Max(0, (expiresAt - clock) \div MsPerSecond)
    IN  [statusCode |-> cachedResponse.statusCode,
         headers |-> Spread(cachedResponse.headers,
                        ("X-Cache" :> "HIT")
                        @@ ("X-Cache-Key" :> cacheKey)
                        @@ ("X-Cache-Expires-In" :> <<timeUntilExpiry, "s">>)
                        @@ ("X-Response-Time" :> "new Date().toISOString()")
                        @@ NoStore @@ CorsAll),
         body |-> cachedResponse.body]

\* the reply to a request served from the upstream
MissReply(response, cacheKey, ttlSeconds, targetUrl) ==
    [statusCode |-> response.statusCode,
     headers |-> Spread(response.headers,
                    ("X-Cache" :> "MISS")
                    @@ ("X-Cache-Key" :> cacheKey)
                    @@ ("X-Cache-Expires-In" :> <<ttlSeconds, "s">>)
                    @@ ("X-Target-URL" :> targetUrl)
                    @@ ("X-Response-Time" :> "new Date().toISOString()")
                    @@ NoStore @@ CorsAll),
     body |-> response.body]

\* ------------------------------------------------------------ the S3 store

\* a put that leaves an object that is already there
PutObjectIfAbsent(bucket, key, body) ==
    bucket @@ (key :> [Body |-> body, ContentType |-> "application/json"])

\* a put that writes the members of the new item one by one and leaves the
\* body member of the object that is already there
PutObjectMerged(bucket, key, body) ==
    LET merged == IF key \in DOMAIN bucket
                  THEN [JSONParse(body) EXCEPT !.body = JSONParse(bucket[key].Body).body]
                  ELSE JSONParse(body)
    IN  (key :> [Body |-> JSONStringify(merged), ContentType |-> "application/json"])
        @@ bucket

\* s3.putObject: the object replaces whatever the key held
PutObject(bucket, key, body) ==
    (key :> [Body |-> body, ContentType |-> "application/json"]) @@ bucket

\* s3.deleteObject: the key is removed, whatever it holds
DeleteObject(bucket, key) == [k \in (DOMAIN bucket) \ {key} |-> bucket[k]]

\* an item that is given no expiry time
CacheItemNoExpiry(response, ttlSeconds, clock1, clock2) ==
    [statusCode |-> response.statusCode,
     headers |-> response.headers,
     body |-> response.body,
     expiresAt |-> 0,
     ttl |-> ttlSeconds,
     cachedAt |-> clock2]

\* an item whose expiry adds the seconds of the TTL to a clock of milliseconds
CacheItemInSeconds(response, ttlSeconds, clock1, clock2) ==
    [statusCode |-> response.statusCode,
     headers |-> response.headers,
     body |-> response.body,
     expiresAt |-> clock1 + ttlSeconds,
     ttl |-> ttlSeconds,
     cachedAt |-> clock2]

\* the cacheItem of cacheResponse; the code reads Date.now() twice
CacheItem(response, ttlSeconds, clock1, clock2) ==
    [statusCode |-> response.statusCode,
     headers |-> response.headers,
     body |-> response.body,
     expiresAt |-> clock1 + (ttlSeconds * MsPerSecond),
     ttl |-> ttlSeconds,
     cachedAt |-> clock2]

\* ----------------------------------------------------------------- handler
\* const host = event.headers.Host || event.headers.host;
\* const subdomain = host ? host.split('.')[0] : 'default';
Subdomain(headers) ==
    LET host == IF Len(Prop(headers, "Host")) # 0 THEN Prop(headers, "Host")
                ELSE Prop(headers, "host")
    IN  IF Len(host) # 0 THEN FirstLabel(host)
        ELSE <<"d", "e", "f", "a", "u", "l", "t">>

TargetUrl(e) == Prop(e.queryStringParameters, "url")
TtlString(e) == Prop(e.queryStringParameters, "ttl")

\* the cache key the handler computes for an event
CacheKeyOf(e) ==
    generateCacheKey(Subdomain(e.headers), TargetUrl(e), EmptyObject, e.headers,
                     e.httpMethod, e.body, TtlString(e))

\* a validity test that lets only the entries of successful responses be served
StillValidIfOk(cachedData, clock) ==
    cachedData.expiresAt > clock /\ cachedData.statusCode < 400

\* a validity test that still serves an entry at the millisecond of its expiry
StillValidAtExpiry(cachedData, clock) == cachedData.expiresAt >= clock

\* cachedData.expiresAt > Date.now()
StillValid(cachedData, clock) == cachedData.expiresAt > clock

\* one call of console.log or console.error
LogLine(text, data) == [text |-> text, data |-> data]

\* the record of an invocation with more lines in its log
Logged(o, lines) == [o EXCEPT !.log = @ \o lines]

\* what the handler logs from its entry to its first await, or to the 400 reply
StartLog(e) ==
    <<LogLine("Request:", JSONStringify(e))>>
    \o (IF Len(TargetUrl(e)) = 0 THEN <<>>
        ELSE <<LogLine("TTL:", <<TtlString(e), parseTTL(TtlString(e))>>),
               LogLine("Cache key:", CacheKeyOf(e))>>)

\* what getCachedResponse logs for what its getObject found
GetLog(saw) ==
    CASE saw = "valid" -> <<LogLine("Cache hit", <<>>)>>
      [] saw = "expired" -> <<LogLine("Cache expired", <<>>)>>
      [] saw = "absent" -> <<LogLine("Cache miss", <<>>)>>
      [] saw = "error" -> <<LogLine("Error getting cached response:", "Access Denied")>>

\* what the handler logs when getCachedResponse has returned null: the url
\* it fetches, and the error of a url that does not parse
AfterNullLog(rq) ==
    <<LogLine("Fetching from target:", TargetUrl(rq.event))>>
    \o (IF UrlParses(TargetUrl(rq.event)) THEN <<>>
        ELSE <<LogLine("Error:", "Invalid URL")>>)

\* the fields the specification's fingerprint is made of
KeyFields(e) ==
    <<Subdomain(e.headers), e.httpMethod, TargetUrl(e), e.body, TtlString(e)>>

\* the handler from its entry to its first await (s3.getObject), or to the
\* 400 reply when the url parameter is missing; the client sends the request
\* on a connection that is free: one it has not used, or one whose reply it
\* has read. limit and allowed bound the requests of the behaviour
Start(r, e, limit, allowed) ==
    /\ req[r].pc \in {"idle", "done"}
    /\ \A q \in 1..(r - 1) : req[q].pc # "idle"
    /\ run.started < limit
    /\ \E s \in allowed : run.events \cup {e} \subseteq s
    /\ req' = [req EXCEPT ![r] =
          IF Len(TargetUrl(e)) = 0
          THEN Replied([IdleReq EXCEPT !.event = e], MissingUrlReply)
          ELSE [IdleReq EXCEPT !.pc = "get", !.event = e,
                               !.ttlSeconds = parseTTL(TtlString(e)),
                               !.cacheKey = CacheKeyOf(e)]]
    /\ obs' = [obs EXCEPT ![r] =
                  [NoObs EXCEPT !.repeat = \E d \in run.events : KeyFields(d) = KeyFields(e),
                                !.log = StartLog(e)]]
    /\ run' = [run EXCEPT !.events = @ \cup {e}, !.started = @ + 1,
                          !.overlapped = @ \/ InFlight # {}]
    /\ UNCHANGED <<now, store, writer>>

StartRequest(r, e) == Start(r, e, MaxReq, Scenarios)

\* a request at the edges of what the handler accepts
StartEdge(r, e) == Start(r, e, MaxEdgeReq, EdgeScenarios)

\* the same request again and again
StartRacing(r) == Start(r, BaseEvent, MaxRaceReq, {{BaseEvent}})

\* getCachedResponse returned null: the handler calls fetchFromTarget, whose
\* new URL(targetUrl) throws inside the promise executor for an unparsable url
AfterNull(rq) ==
    IF UrlParses(TargetUrl(rq.event))
    THEN [rq EXCEPT !.pc = "fetch",
                    !.sent = OutboundHeaders(rq.event.headers, TargetUrl(rq.event))]
    ELSE Replied(rq, ErrorReply("Invalid URL"))

\* the history record of an invocation when its getObject is answered
Observed(r, saw) ==
    LET k == S3Key(req[r].cacheKey)
        entry == writer[k]
        ttlMs == parseTTL(TtlString(entry.event)) * MsPerSecond
    IN  IF k \notin DOMAIN writer
        THEN [obs[r] EXCEPT !.saw = saw, !.ops = Append(@, "get"), !.log = @ \o GetLog(saw)]
        ELSE [obs[r] EXCEPT !.saw = saw, !.ops = Append(@, "get"), !.log = @ \o GetLog(saw),
                 !.window = IF now < entry.at + ttlMs THEN "inside" ELSE "after",
                 !.readFrom = IF saw \in {"valid", "expired"} THEN entry.event ELSE @]

\* s3.getObject rejects with NoSuchKey
GetNoSuchKey(r) ==
    /\ req[r].pc = "get"
    /\ S3Key(req[r].cacheKey) \notin DOMAIN store
    /\ req' = [req EXCEPT ![r] = AfterNull(@)]
    /\ obs' = [obs EXCEPT ![r] = Logged(Observed(r, "absent"), AfterNullLog(req[r]))]
    /\ UNCHANGED <<now, store, writer, run>>

\* a getCachedResponse that lets the error of s3.getObject reach the catch
\* block of the handler
GetErrorSurfaced(r) ==
    /\ req[r].pc = "get"
    /\ MayFail
    /\ req' = [req EXCEPT ![r] = Replied(@, ErrorReply("Access Denied"))]
    /\ obs' = [obs EXCEPT ![r] = Observed(r, "error")]
    /\ run' = Failed
    /\ UNCHANGED <<now, store, writer>>

\* s3.getObject rejects with another error, or JSON.parse throws: the catch
\* block of getCachedResponse returns null
GetError(r) ==
    /\ req[r].pc = "get"
    /\ MayFail
    /\ req' = [req EXCEPT ![r] = AfterNull(@)]
    /\ obs' = [obs EXCEPT ![r] = Logged(Observed(r, "error"), AfterNullLog(req[r]))]
    /\ run' = Failed
    /\ UNCHANGED <<now, store, writer>>

\* a getCachedResponse that writes the entry back with a new lifetime each
\* time it is read
GetValidSliding(r) ==
    /\ req[r].pc = "get"
    /\ S3Key(req[r].cacheKey) \in DOMAIN store
    /\ LET cachedData == JSONParse(store[S3Key(req[r].cacheKey)].Body)
           renewed == [cachedData EXCEPT
                          !.expiresAt = @ + (cachedData.ttl * MsPerSecond)]
       IN  /\ StillValid(cachedData, now)
           /\ store' = PutObject(store, S3Key(req[r].cacheKey), JSONStringify(renewed))
           /\ req' = [req EXCEPT ![r].pc = "hit",
                         ![r].cachedResponse =
                             [statusCode |-> cachedData.statusCode,
                              headers |-> cachedData.headers,
                              body |-> cachedData.body,
                              expiresAt |-> cachedData.expiresAt,
                              ttl |-> cachedData.ttl]]
    /\ obs' = [obs EXCEPT ![r] = Observed(r, "valid")]
    /\ UNCHANGED <<now, writer, run>>

\* s3.getObject resolves and the entry has not expired
GetValid(r) ==
    /\ req[r].pc = "get"
    /\ S3Key(req[r].cacheKey) \in DOMAIN store
    /\ LET cachedData == JSONParse(store[S3Key(req[r].cacheKey)].Body)
       IN  /\ StillValid(cachedData, now)
           /\ req' = [req EXCEPT ![r].pc = "hit",
                         ![r].cachedResponse =
                             [statusCode |-> cachedData.statusCode,
                              headers |-> cachedData.headers,
                              body |-> cachedData.body,
                              expiresAt |-> cachedData.expiresAt,
                              ttl |-> cachedData.ttl]]
    /\ obs' = [obs EXCEPT ![r] =
                  [Observed(r, "valid") EXCEPT
                      !.entry = LET cachedData == JSONParse(store[S3Key(req[r].cacheKey)].Body)
                                IN  <<cachedData.cachedAt, cachedData.expiresAt>>]]
    /\ UNCHANGED <<now, store, writer, run>>

\* a getCachedResponse that calls deleteObject for an expired entry and
\* returns null without awaiting it
GetExpiredNoWait(r) ==
    /\ req[r].pc = "get"
    /\ S3Key(req[r].cacheKey) \in DOMAIN store
    /\ LET cachedData == JSONParse(store[S3Key(req[r].cacheKey)].Body)
       IN  ~StillValid(cachedData, now)
    /\ req' = [req EXCEPT ![r] = AfterNull(@)]
    /\ obs' = [obs EXCEPT ![r] = Logged(Observed(r, "expired"), AfterNullLog(req[r]))]
    /\ UNCHANGED <<now, store, writer, run>>

\* s3.getObject resolves and the entry has expired: deleteObject is called
GetExpired(r) ==
    /\ req[r].pc = "get"
    /\ S3Key(req[r].cacheKey) \in DOMAIN store
    /\ LET cachedData == JSONParse(store[S3Key(req[r].cacheKey)].Body)
       IN  ~StillValid(cachedData, now)
    /\ req' = [req EXCEPT ![r].pc = "delete"]
    /\ obs' = [obs EXCEPT ![r] = Observed(r, "expired")]
    /\ UNCHANGED <<now, store, writer, run>>

\* s3.deleteObject resolves
DeleteDone(r) ==
    /\ req[r].pc = "delete"
    /\ store' = DeleteObject(store, S3Key(req[r].cacheKey))
    /\ req' = [req EXCEPT ![r] = AfterNull(@)]
    /\ obs' = [obs EXCEPT ![r].reap = "done", ![r].ops = Append(@, "delete"),
                          ![r].log = @ \o AfterNullLog(req[r])]
    /\ UNCHANGED <<now, writer, run>>

\* s3.deleteObject rejects: the catch block of getCachedResponse returns null
DeleteError(r) ==
    /\ req[r].pc = "delete"
    /\ MayFail
    /\ req' = [req EXCEPT ![r] = AfterNull(@)]
    /\ obs' = [obs EXCEPT ![r].reap = "failed", ![r].ops = Append(@, "delete"),
                          ![r].log = @ \o <<LogLine("Error getting cached response:",
                                                    "Access Denied")>>
                                       \o AfterNullLog(req[r])]
    /\ run' = Failed
    /\ UNCHANGED <<now, store, writer>>

\* the handler replies from the cache entry that getCachedResponse returned
HitReturn(r) ==
    /\ req[r].pc = "hit"
    /\ req' = [req EXCEPT ![r] =
                  Replied(@, HitReply(req[r].cachedResponse, req[r].cacheKey, now))]
    /\ UNCHANGED <<now, store, obs, writer, run>>

\* the upstream response ends: fetchFromTarget resolves, and cacheResponse
\* builds the cache item and calls s3.putObject
UpstreamEnd(r, wire) ==
    /\ req[r].pc = "fetch"
    /\ LET response == ResolvedResponse(wire)
       IN  req' = [req EXCEPT ![r].pc = "put", ![r].response = response,
                      ![r].cacheItem = CacheItem(response, req[r].ttlSeconds, now, now)]
    /\ obs' = [obs EXCEPT ![r].ops = Append(@, "fetch"),
                          ![r].log = Append(@, LogLine("Target response:", wire.statusCode))]
    /\ UNCHANGED <<now, store, writer, run>>

\* a fetchFromTarget that resolves with a response made from the error, which
\* the handler then caches
UpstreamErrorCached(r, message) ==
    /\ req[r].pc = "fetch"
    /\ MayFail
    /\ LET response == [statusCode |-> 502, headers |-> EmptyObject, body |-> <<message>>]
       IN  req' = [req EXCEPT ![r].pc = "put", ![r].response = response,
                      ![r].cacheItem = CacheItem(response, req[r].ttlSeconds, now, now)]
    /\ obs' = [obs EXCEPT ![r].ops = Append(@, "fetch")]
    /\ run' = Failed
    /\ UNCHANGED <<now, store, writer>>

\* the upstream request emits 'error', or 'timeout' after 30 s: the promise is
\* rejected and the catch block of the handler replies
UpstreamError(r, message) ==
    /\ req[r].pc = "fetch"
    /\ MayFail
    /\ req' = [req EXCEPT ![r] = Replied(@, ErrorReply(message))]
    /\ obs' = [obs EXCEPT ![r].ops = Append(@, "fetch"),
                          ![r].log = @ \o <<LogLine(IF message = "Request timeout"
                                                    THEN "Request timeout"
                                                    ELSE "Request error:", message),
                                            LogLine("Error:", message)>>]
    /\ run' = Failed
    /\ UNCHANGED <<now, store, writer>>

\* the upstream connection closes after the response headers and before the
\* end of the body: the response emits 'aborted' and 'close', for which
\* fetchFromTarget has no listener; it emits no 'end', the request emits no
\* 'error', and the timer of the closed socket is gone, so neither resolve nor
\* reject is ever called and the handler stays at its await
UpstreamAborted(r) ==
    /\ req[r].pc = "fetch"
    /\ MayFail
    /\ req' = [req EXCEPT ![r].pc = "aborted"]
    /\ obs' = [obs EXCEPT ![r].ops = Append(@, "fetch")]
    /\ run' = Failed
    /\ UNCHANGED <<now, store, writer>>

\* the reply of the handler after cacheResponse has returned
MissReturn(rq) ==
    Replied(rq, MissReply(rq.response, rq.cacheKey, rq.ttlSeconds, TargetUrl(rq.event)))

\* s3.putObject resolves, and the handler replies
PutDone(r) ==
    /\ req[r].pc = "put"
    /\ store' = PutObject(store, S3Key(req[r].cacheKey), JSONStringify(req[r].cacheItem))
    /\ writer' = (S3Key(req[r].cacheKey) :>
                      [by |-> r, event |-> req[r].event,
                       at |-> req[r].cacheItem.cachedAt]) @@ writer
    /\ req' = [req EXCEPT ![r] = MissReturn(@)]
    /\ obs' = [obs EXCEPT ![r].put = "done", ![r].ops = Append(@, "put"),
                          ![r].log = Append(@, LogLine("Response cached in S3", <<>>))]
    /\ UNCHANGED <<now, run>>

\* a cacheResponse that lets the error of s3.putObject reach the catch block
\* of the handler
PutErrorSurfaced(r) ==
    /\ req[r].pc = "put"
    /\ MayFail
    /\ req' = [req EXCEPT ![r] = Replied(@, ErrorReply("Access Denied"))]
    /\ obs' = [obs EXCEPT ![r].put = "failed", ![r].ops = Append(@, "put")]
    /\ run' = Failed
    /\ UNCHANGED <<now, store, writer>>

\* a cacheResponse that calls s3.putObject again when it rejects
PutErrorRetried(r) ==
    /\ req[r].pc = "put"
    /\ MayFail
    /\ obs' = [obs EXCEPT ![r].put = "failed", ![r].ops = Append(@, "put"),
                          ![r].log = Append(@, LogLine("Error caching response:",
                                                       "Access Denied"))]
    /\ run' = Failed
    /\ UNCHANGED <<now, store, req, writer>>

\* s3.putObject rejects: cacheResponse logs it, and the handler replies
PutError(r) ==
    /\ req[r].pc = "put"
    /\ MayFail
    /\ req' = [req EXCEPT ![r] = MissReturn(@)]
    /\ obs' = [obs EXCEPT ![r].put = "failed", ![r].ops = Append(@, "put"),
                          ![r].log = Append(@, LogLine("Error caching response:",
                                                       "Access Denied"))]
    /\ run' = Failed
    /\ UNCHANGED <<now, store, writer>>

\* time passes
Tick ==
    /\ now + TickMs <= MaxTicks * TickMs
    /\ \E r \in Reqs : req[r].pc # "done"
    /\ now' = now + TickMs
    /\ UNCHANGED <<store, req, obs, writer, run>>

Next ==
    \/ \E r \in Reqs, e \in Events : StartRequest(r, e)
    \/ \E r \in Reqs : GetNoSuchKey(r)
    \/ \E r \in Reqs : GetError(r)
    \/ \E r \in Reqs : GetValid(r)
    \/ \E r \in Reqs : GetExpired(r)
    \/ \E r \in Reqs : DeleteDone(r)
    \/ \E r \in Reqs : DeleteError(r)
    \/ \E r \in Reqs : HitReturn(r)
    \/ \E r \in Reqs, wire \in UpstreamResponses : UpstreamEnd(r, wire)
    \/ \E r \in Reqs, message \in UpstreamFailures : UpstreamError(r, message)
    \/ \E r \in Reqs : PutDone(r)
    \/ \E r \in Reqs : PutError(r)
    \/ Tick

Spec == Init /\ [][Next]_vars

\* requests at the edges of what the handler accepts
EdgeNext ==
    \/ \E r \in Reqs, e \in EdgeEvents : StartEdge(r, e)
    \/ \E r \in Reqs : GetNoSuchKey(r)
    \/ \E r \in Reqs : GetError(r)
    \/ \E r \in Reqs : GetValid(r)
    \/ \E r \in Reqs : GetExpired(r)
    \/ \E r \in Reqs : DeleteDone(r)
    \/ \E r \in Reqs : DeleteError(r)
    \/ \E r \in Reqs : HitReturn(r)
    \/ \E r \in Reqs, wire \in UpstreamResponses : UpstreamEnd(r, wire)
    \/ \E r \in Reqs, message \in UpstreamFailures : UpstreamError(r, message)
    \/ \E r \in Reqs : PutDone(r)
    \/ \E r \in Reqs : PutError(r)
    \/ Tick

EdgeSpec == Init /\ [][EdgeNext]_vars

\* identical requests, with no failing call
RaceNext ==
    \/ \E r \in Reqs : StartRacing(r)
    \/ \E r \in Reqs : GetNoSuchKey(r)
    \/ \E r \in Reqs : GetValid(r)
    \/ \E r \in Reqs : GetExpired(r)
    \/ \E r \in Reqs : DeleteDone(r)
    \/ \E r \in Reqs : HitReturn(r)
    \/ \E r \in Reqs, wire \in UpstreamResponses : UpstreamEnd(r, wire)
    \/ \E r \in Reqs : PutDone(r)
    \/ Tick

RaceSpec == Init /\ [][RaceNext]_vars

\* a request in a behaviour in which every call settles in the end
StartLive(r) == Start(r, BaseEvent, MaxLiveReq, {{BaseEvent}})

\* what the event loop does for invocation r once it has started: an awaited
\* S3 call settles, or an event of the upstream request or response is emitted
HandlerStep(r) ==
    \/ GetNoSuchKey(r)
    \/ GetError(r)
    \/ GetValid(r)
    \/ GetExpired(r)
    \/ DeleteDone(r)
    \/ DeleteError(r)
    \/ HitReturn(r)
    \/ \E wire \in UpstreamResponses : UpstreamEnd(r, wire)
    \/ \E message \in UpstreamFailures : UpstreamError(r, message)
    \/ UpstreamAborted(r)
    \/ PutDone(r)
    \/ PutError(r)

LiveNext ==
    \/ \E r \in Reqs : StartLive(r)
    \/ \E r \in Reqs : HandlerStep(r)
    \/ Tick

\* every S3 call settles (the SDK gives up after its own timeouts), every
\* socket that stays open and idle for 30 s emits 'timeout', and Node runs the
\* continuation of a settled promise: an invocation that can take a step
\* takes one in the end
LiveSpec == Init /\ [][LiveNext]_vars /\ \A r \in Reqs : WF_vars(HandlerStep(r))

\* the ttl strings parseTTL is applied to
TtlStrings ==
    { <<>>,
      <<"5">>,
      <<"0">>,
      <<"a", "b", "c">>,
      <<"1", ".", "5", "h">>,
      <<"-", "3", "s">>,
      <<"s">>,
      <<"1", "w">>,
      <<"2", "w">>,
      <<"1", "S">>,
      <<"0", "s">>,
      <<"1", "s">>,
      <<"0", "0", "7", "s">>,
      <<"5", "9", "s">>,
      <<"1", "m">>,
      <<"2", "h">>,
      <<"1", "d">>,
      <<"9", "9", "9", "d">>,
      <<"2", "4", "8", "5", "5", "d">>,
      <<"2", "4", "8", "5", "6", "d">>,
      <<"9", "9", "9", "9", "9", "d">>,
      <<"2", "1", "4", "7", "4", "8", "3", "6", "4", "7", "s">>,
      <<"2", "1", "4", "7", "4", "8", "3", "6", "4", "8", "s">>,
      <<"3", "5", "7", "9", "1", "3", "9", "4", "m">>,
      <<"3", "5", "7", "9", "1", "3", "9", "5", "m">>,
      <<"5", "9", "6", "5", "2", "3", "h">>,
      <<"5", "9", "6", "5", "2", "4", "h">>,
      <<" ", "1", "s">>,
      <<"1", "s", " ">>,
      <<"1", "h", "2">>,
      <<"1", "2">>,
      <<"h", "1">>,
      <<"1", "s", "s">>,
      <<"1", "0", "m">>,
      <<"9", "0", "s">>,
      <<"3", "6", "0", "0", "s">>,
      <<"6", "0", "m">>,
      <<"2", "4", "h">>,
      <<"7", "d">>,
      <<"3", "6", "5", "d">>,
      <<"1", "0", "0", "d">> }

\* the handler from its entry to const ttlSeconds = parseTTL(ttlString), for
\* an event the behaviour started with; ttlSeconds is kept as digits
ParseTtl(r) ==
    /\ req[r].pc = "idle"
    /\ \E e \in run.events :
           req' = [req EXCEPT ![r] = [IdleReq EXCEPT !.pc = "parsed", !.event = e,
                                         !.ttlSeconds = parseTTLDigits(TtlString(e))]]
    /\ UNCHANGED <<now, store, obs, writer, run>>

\* one event, with any of the ttl strings
TtlInit ==
    /\ now = 0
    /\ store = EmptyObject
    /\ req = [r \in Reqs |-> IdleReq]
    /\ obs = [r \in Reqs |-> NoObs]
    /\ writer = EmptyObject
    /\ \E t \in TtlStrings :
           run = [events |-> {Event("Host", HostA, GET, UrlU, <<>>, t, <<>>, <<"/">>, <<>>)},
                  started |-> 0, faults |-> 0, overlapped |-> FALSE]

TtlNext == \E r \in Reqs : ParseTtl(r)

TtlSpec == TtlInit /\ [][TtlNext]_vars

\* ---------------------------------------------------------------- replies
Done == {r \in Reqs : req[r].pc = "done"}

\* the invocations that replied HIT or MISS
Served == {r \in Done : "X-Cache" \in DOMAIN req[r].reply.headers}

Hits == {r \in Served : req[r].reply.headers["X-Cache"] = "HIT"}

Misses == {r \in Served : req[r].reply.headers["X-Cache"] = "MISS"}

KeyHeader(r) == req[r].reply.headers["X-Cache-Key"]

\* no call has failed and no two invocations have overlapped
Quiet == run.faults = 0 /\ ~run.overlapped

\* ----------------------------------------------------------------- claims
\* C1: in a behaviour of sequential requests in which no S3 or upstream call
\* fails, a request that is the first with its tenant, method, url, body and
\* ttl replies MISS; a request repeated while the entry is inside its TTL
\* replies HIT; a request repeated when the TTL has elapsed replies MISS;
\* identical requests carry the same X-Cache-Key
C1_MissHitMiss ==
    Quiet =>
        /\ Done = Served
        /\ \A r \in Served :
            /\ ~obs[r].repeat => r \in Misses /\ obs[r].saw = "absent"
            /\ obs[r].repeat => obs[r].window # "none"
            /\ obs[r].repeat /\ obs[r].window = "inside" => r \in Hits
            /\ obs[r].repeat /\ obs[r].window = "after" => r \in Misses
            /\ \A q \in Served :
                   req[q].event = req[r].event => KeyHeader(q) = KeyHeader(r)

\* the second request was answered HIT and the third, sent when the TTL had
\* elapsed, MISS, with the same key
C1_Witness ==
    /\ Quiet
    /\ run.started = MaxReq
    /\ \E r \in Hits, q \in Misses :
        /\ req[q].event = req[r].event
        /\ obs[r].repeat /\ obs[r].window = "inside"
        /\ obs[q].repeat /\ obs[q].window = "after" /\ obs[q].saw = "expired"
        /\ KeyHeader(q) = KeyHeader(r)

C3_TtlCorrectness ==
    run.faults = 0 =>
        \A r \in Served :
            /\ obs[r].window = "inside" => r \in Hits
            /\ obs[r].window = "after" => r \in Misses

C5_HeadersInKey ==
    \A r \in Served, q \in Served :
        /\ KeyFields(req[q].event) = KeyFields(req[r].event)
        /\ req[q].event.headers # req[r].event.headers
        => KeyHeader(q) # KeyHeader(r)

\* C6: two requests that differ in their ttl string only carry different
\* keys; a HIT is served from an entry put under the same ttl string; the
\* entry stored under the key of a request has the TTL of that request's ttl
\* string; and when requests do not overlap, the first request with a ttl
\* string replies MISS
C6_TtlInKey ==
    /\ \A r \in Served :
        /\ \A q \in Served :
               TtlString(req[q].event) # TtlString(req[r].event)
                   => KeyHeader(q) # KeyHeader(r)
        /\ r \in Hits => TtlString(obs[r].readFrom) = TtlString(req[r].event)
        /\ ~run.overlapped /\ ~obs[r].repeat => r \in Misses
        /\ S3Key(KeyHeader(r)) \in DOMAIN store =>
               JSONParse(store[S3Key(KeyHeader(r))].Body).ttl
                   = parseTTL(TtlString(req[r].event))

\* a request with ttl=2s replied MISS although the entry of the same request
\* with ttl=1s was in the store, and both entries are kept
C6_Witness ==
    /\ ~run.overlapped
    /\ \E r \in Misses, q \in Misses :
        /\ TtlString(req[r].event) # TtlString(req[q].event)
        /\ [req[r].event EXCEPT !.queryStringParameters = EmptyObject]
               = [req[q].event EXCEPT !.queryStringParameters = EmptyObject]
        /\ TargetUrl(req[r].event) = TargetUrl(req[q].event)
        /\ {S3Key(KeyHeader(r)), S3Key(KeyHeader(q))} \subseteq DOMAIN store
        /\ JSONParse(store[S3Key(KeyHeader(r))].Body).ttl
               # JSONParse(store[S3Key(KeyHeader(q))].Body).ttl

\* C7: two requests with the same tenant, target url and ttl string that
\* differ in method or in body carry different keys; a HIT is served from an
\* entry put by a request with the same method and body; and when requests do
\* not overlap, the first request with a method and a body replies MISS
C7_MethodAndBodyInKey ==
    \A r \in Served :
        /\ \A q \in Served :
               \/ req[q].event.httpMethod # req[r].event.httpMethod
               \/ req[q].event.body # req[r].event.body
               => KeyHeader(q) # KeyHeader(r)
        /\ r \in Hits =>
               /\ obs[r].readFrom.httpMethod = req[r].event.httpMethod
               /\ obs[r].readFrom.body = req[r].event.body
        /\ ~run.overlapped /\ ~obs[r].repeat => r \in Misses

\* two POST requests that differ in their body only both replied MISS, under
\* two keys, the second while the entry of the first was in the store
C7_Witness ==
    /\ ~run.overlapped
    /\ \E r \in Misses, q \in Misses :
        /\ req[r].event.httpMethod = req[q].event.httpMethod
        /\ req[r].event.body # req[q].event.body
        /\ KeyHeader(r) # KeyHeader(q)
        /\ {S3Key(KeyHeader(r)), S3Key(KeyHeader(q))} \subseteq DOMAIN store

\* the entry stored under the key of r is the item that the reply of w was
\* built from
StoredIsFrom(r, w) ==
    LET k == S3Key(KeyHeader(r))
        item == JSONParse(store[k].Body)
    IN  /\ item.statusCode = req[w].reply.statusCode
        /\ item.body = req[w].reply.body
        /\ \A n \in DOMAIN item.headers :
               /\ n \in DOMAIN req[w].reply.headers
               /\ req[w].reply.headers[n] = item.headers[n]

\* two invocations with one key both found the key absent and both replied MISS
BothMissed(r, q) ==
    /\ r # q
    /\ {r, q} \subseteq Misses
    /\ KeyHeader(r) = KeyHeader(q)
    /\ obs[r].saw = "absent" /\ obs[q].saw = "absent"

\* C8: when the only two requests of a behaviour overlapped on one cold key,
\* both found it absent, both fetched and both replied MISS, then once both
\* have replied the store holds under that key the item of the invocation
\* whose put was applied last
C8_LaterPutWins ==
    \A r \in Reqs, q \in Reqs :
        run.started = 2 /\ run.faults = 0 /\ BothMissed(r, q) =>
            /\ S3Key(KeyHeader(r)) \in DOMAIN store
            /\ StoredIsFrom(r, writer[S3Key(KeyHeader(r))].by)

\* two overlapping requests both missed and fetched different upstream
\* responses; the entry in the store is the one put last
C8_Witness ==
    \E r \in Reqs, q \in Reqs :
        /\ run.started = 2 /\ run.faults = 0 /\ run.overlapped
        /\ BothMissed(r, q)
        /\ req[r].reply.statusCode # req[q].reply.statusCode
        /\ writer[S3Key(KeyHeader(r))].by = q
        /\ StoredIsFrom(r, q)
        /\ ~StoredIsFrom(r, r)

\* the header names the specification has the proxy drop from upstream responses
DropNames ==
    {"content-encoding", "content-length", "transfer-encoding", "connection",
     "upgrade", "keep-alive", "proxy-authenticate", "proxy-authorization",
     "te", "trailers", "cache-control"}

\* the Cache-Control values the upstreams of the model send
UpstreamCacheControl ==
    {w.headers[n] : <<w, n>> \in
        {<<x, m>> \in UpstreamResponses \X {"Cache-Control", "cache-control"} :
            m \in DOMAIN x.headers}}

ParsedTtl ==
    {r \in Reqs : /\ req[r].pc = "parsed"
                  /\ LET t == TtlString(req[r].event)
                     IN  /\ Len(t) >= 2
                         /\ t[Len(t)] \in {"s", "m", "h", "d"}
                         /\ \A i \in 1..(Len(t) - 1) : t[i] \in Digits}

\* N * unit of a ttl string of the grammar, as digits
TtlProduct(t) ==
    LET unit == t[Len(t)]
        secs == CASE unit = "s" -> 1 [] unit = "m" -> 60
                  [] unit = "h" -> 3600 [] unit = "d" -> 86400
    IN  Normal(Times(parseInt(SubSeq(t, 1, Len(t) - 1)), secs, 0))

\* a < b or a = b on digit sequences without leading zeros
RECURSIVE AtMost(_, _)
AtMost(a, b) ==
    IF Len(a) # Len(b) THEN Len(a) < Len(b)
    ELSE IF Len(a) = 0 THEN TRUE
    ELSE IF a[Len(a)] # b[Len(b)] THEN a[Len(a)] < b[Len(b)]
    ELSE AtMost(SubSeq(a, 1, Len(a) - 1), SubSeq(b, 1, Len(b) - 1))

\* 2^31 - 1 = 2147483647, as digits
TtlCap == <<7, 4, 6, 3, 8, 4, 7, 4, 1, 2>>

\* C12: for a ttl string of the grammar, parseTTL returns N * unit when that
\* is at most 2^31 - 1, and 2^31 - 1 when it is more
C12_TtlCapped ==
    \A r \in ParsedTtl :
        LET product == TtlProduct(TtlString(req[r].event))
        IN  req[r].ttlSeconds = IF AtMost(product, TtlCap) THEN product ELSE TtlCap

\* C11: every reply of the handler, the 400 and 500 replies included, carries
\* the Cache-Control, Pragma, Expires, Surrogate-Control and X-Cache-Control
\* headers that forbid caching
C11_EveryReplyNoStore ==
    \A r \in Done :
        \A n \in DOMAIN NoStore :
            /\ n \in DOMAIN req[r].reply.headers
            /\ req[r].reply.headers[n] = NoStore[n]

\* the invocations whose ttl parameter is absent, empty or not of the grammar
DefaultTtl ==
    {r \in Reqs : /\ req[r].pc # "idle"
                  /\ Len(TargetUrl(req[r].event)) # 0
                  /\ TtlString(req[r].event) \in UnmatchedTtls}

ZeroTtlReqs == {r \in Reqs : req[r].pc # "idle" /\ req[r].event = ZeroTtl}

\* C14: a request with ttl=0s is answered 400: it never reaches the upstream
\* fetch or the put, and no entry with ttl 0 is in the store
C14_ZeroTtlRejected ==
    /\ \A r \in ZeroTtlReqs :
           /\ req[r].pc \notin {"fetch", "put"}
           /\ r \in Done => req[r].reply.statusCode = 400
    /\ \A k \in DOMAIN store : JSONParse(store[k].Body).ttl # 0

\* the invocations made without the url parameter
NoUrlReqs == {r \in Reqs : req[r].pc # "idle" /\ Len(TargetUrl(req[r].event)) = 0}

\* C15: a request without the url parameter is answered at once with status
\* 400 and a JSON body that names the missing parameter and shows the usage;
\* it is never waiting for a getObject, a deleteObject, an upstream response or
\* a putObject, and no entry of the store was put by it
C15_MissingUrl ==
    \A r \in NoUrlReqs :
        /\ req[r].pc = "done"
        /\ req[r].reply.statusCode = 400
        /\ req[r].reply.headers["Content-Type"] = "application/json"
        /\ LET body == JSONParse(req[r].reply.body)
           IN  /\ {"error", "usage", "examples"} \subseteq DOMAIN body
               /\ body.error = "Missing required parameter: url"
        /\ obs[r].saw = "none"
        /\ obs[r].reap = "none"
        /\ \A k \in DOMAIN writer : writer[k].event # req[r].event

\* a request without url has been answered 400 while the store holds the
\* entry of an earlier request, which is still the one that request put
C15_Witness ==
    \E r \in NoUrlReqs, q \in Misses :
        /\ req[r].reply.statusCode = 400
        /\ run.started = 2
        /\ S3Key(KeyHeader(q)) \in DOMAIN store
        /\ StoredIsFrom(q, q)

\* the invocations whose url is not absolute, or is not an http or https url
BadUrlReqs == {r \in Reqs : req[r].pc # "idle" /\ req[r].event \in {RelativeUrl, FtpUrl}}

\* C16: a request whose url is not absolute, or whose scheme is neither http
\* nor https, is answered 400 at once: it is never waiting for a getObject, a
\* deleteObject, an upstream response or a putObject, and no entry of the
\* store was put by it
C16_BadUrlRejected ==
    \A r \in BadUrlReqs :
        /\ req[r].pc = "done"
        /\ req[r].reply.statusCode = 400
        /\ obs[r].saw = "none"
        /\ \A k \in DOMAIN writer : writer[k].event # req[r].event

\* the invocations whose upstream fetch failed: the reply carries the message
\* of the error
FetchFailed(message) ==
    {r \in Done \ Served : LET body == JSONParse(req[r].reply.body)
                           IN  "message" \in DOMAIN body /\ body.message = message}

\* C17: when the upstream connection fails the reply status is 502, and when
\* the upstream does not answer within 30 seconds the reply status is 504
C17_UpstreamStatus ==
    /\ \A r \in FetchFailed("connect ECONNREFUSED") : req[r].reply.statusCode = 502
    /\ \A r \in FetchFailed("Request timeout") : req[r].reply.statusCode = 504

\* C18: every error reply has a JSON body with exactly the fields error and
\* message, where error is one of BadRequest, UpstreamUnreachable,
\* UpstreamTimeout, UpstreamPayloadTooLarge, Internal
C18_ErrorBodyShape ==
    \A r \in Done \ Served :
        LET body == JSONParse(req[r].reply.body)
        IN  /\ DOMAIN body = {"error", "message"}
            /\ body.error \in {"BadRequest", "UpstreamUnreachable", "UpstreamTimeout",
                               "UpstreamPayloadTooLarge", "Internal"}

\* the status and body of the responses the upstream may give
UpstreamAnswers == {<<wire.statusCode, wire.body>> : wire \in UpstreamResponses}

StoreFailed == {r \in Reqs : obs[r].saw = "error" \/ obs[r].reap = "failed"}

\* C20: a request whose getObject fails with another error than NoSuchKey,
\* whose stored object cannot be parsed, or whose deleteObject of an expired
\* entry fails goes on as a miss: it fetches from the upstream, attempts the
\* put and replies MISS with the status and body of the upstream; the only
\* error reply it can end with is the one of a fetch that failed as well
C20_StoreFailureIsMiss ==
    \A r \in StoreFailed :
        /\ req[r].pc \in {"fetch", "put", "done"}
        /\ req[r].pc = "put" => req[r].cacheItem.statusCode = req[r].response.statusCode
        /\ r \in Done =>
               \/ /\ r \in Misses
                  /\ <<req[r].reply.statusCode, req[r].reply.body>> \in UpstreamAnswers
               \/ /\ run.faults > 1
                  /\ \E message \in UpstreamFailures : r \in FetchFailed(message)

\* a request found an expired entry, its deleteObject failed, and it replied
\* MISS; the entry it then put is in the store
C20_Witness ==
    \E r \in StoreFailed \cap Misses :
        /\ obs[r].saw = "expired"
        /\ obs[r].reap = "failed"
        /\ S3Key(KeyHeader(r)) \in DOMAIN store
        /\ StoredIsFrom(r, r)

\* the invocations whose putObject failed
PutFailed == {r \in Done : obs[r].put = "failed"}

\* C21: a request whose putObject fails replies as it would have replied had
\* the put succeeded: MISS, with the status, headers and body of an upstream
\* response and X-Cache-Expires-In equal to its ttl. It leaves the store as it
\* was: when it is the only request so far the store is empty, and when no
\* requests overlap the same request made next finds no entry, fetches again
\* and replies MISS
C21_PutFailureIsMiss ==
    \A r \in PutFailed :
        /\ r \in Misses
        /\ \E wire \in UpstreamResponses :
               req[r].reply = MissReply(ResolvedResponse(wire), CacheKeyOf(req[r].event),
                                        parseTTL(TtlString(req[r].event)),
                                        TargetUrl(req[r].event))
        /\ run.started = 1 => DOMAIN store = {}
        /\ (run.started = 2 /\ ~run.overlapped /\ ~obs[r].repeat) =>
               \A q \in Reqs \ {r} :
                   (req[q].event = req[r].event /\ req[q].pc \notin {"idle", "get"}) =>
                       /\ obs[q].saw \in {"absent", "error"}
                       /\ req[q].pc \in {"fetch", "put", "done"}
                       /\ q \in Done => q \in Misses \/ run.faults > 1

\* the put of the first request failed and it replied MISS; the same request
\* was made again, found no entry, fetched and replied MISS, and its entry is
\* in the store
C21_Witness ==
    \E r \in PutFailed, q \in Misses :
        /\ run.started = 2
        /\ ~run.overlapped
        /\ ~obs[r].repeat
        /\ obs[q].repeat
        /\ req[q].event = req[r].event
        /\ obs[q].saw = "absent"
        /\ obs[q].put = "done"
        /\ S3Key(KeyHeader(q)) \in DOMAIN store

\* the responses fetchFromTarget resolves with
ResolvedResponses == {ResolvedResponse(wire) : wire \in UpstreamResponses}

\* C22: a request whose fetch ended in an error or a timeout has issued no
\* putObject, and the status, headers and body of every entry of the store
\* are those fetchFromTarget resolved with for an upstream response that was
\* read to its end
C22_EntriesFromResponses ==
    /\ \A r \in Done :
           (\E message \in UpstreamFailures : r \in FetchFailed(message)) =>
               /\ obs[r].put = "none"
               /\ obs[r].ops[Len(obs[r].ops)] = "fetch"
               /\ \A i \in 1..Len(obs[r].ops) : obs[r].ops[i] # "put"
    /\ \A k \in DOMAIN store :
           LET item == JSONParse(store[k].Body)
           IN  [statusCode |-> item.statusCode, headers |-> item.headers, body |-> item.body]
                   \in ResolvedResponses

\* the fetch of a request has failed, and the store holds the entry another
\* request put
C22_Witness ==
    \E r \in Done, q \in Misses :
        /\ r \in FetchFailed("Request timeout")
        /\ obs[q].put = "done"
        /\ S3Key(KeyHeader(q)) \in DOMAIN store
        /\ StoredIsFrom(q, q)

\* C23: every entry of the store has a positive ttl, expires after it was
\* cached, and expires exactly its ttl after it was cached
C23_EntryTimes ==
    \A k \in DOMAIN store :
        LET item == JSONParse(store[k].Body)
        IN  /\ item.ttl > 0
            /\ item.expiresAt > item.cachedAt
            /\ item.expiresAt = item.cachedAt + item.ttl * MsPerSecond

\* C24: the operations of one request settle in the order get, delete, fetch,
\* put: the delete is issued only for an entry that was read expired, the
\* fetch starts only when the get, and the delete if there is one, have
\* settled, the put starts only when the fetch has ended, and the MISS reply
\* is returned only when the put has settled; a HIT follows the get alone
C24_OperationOrder ==
    \A r \in Reqs :
        LET ops == obs[r].ops
            reaped == \E i \in 1..Len(ops) : ops[i] = "delete"
        IN  /\ req[r].pc = "get" => ops = <<>>
            /\ req[r].pc = "delete" => ops = <<"get">> /\ obs[r].saw = "expired"
            /\ reaped => obs[r].saw = "expired"
            /\ (obs[r].saw = "expired" /\ req[r].pc # "delete") => reaped
            /\ req[r].pc = "fetch" => ops \in {<<"get">>, <<"get", "delete">>}
            /\ req[r].pc = "put" =>
                   ops \in {<<"get", "fetch">>, <<"get", "delete", "fetch">>}
            /\ r \in Misses =>
                   ops \in {<<"get", "fetch", "put">>, <<"get", "delete", "fetch", "put">>}
            /\ (req[r].pc = "hit" \/ r \in Hits) => ops = <<"get">>

\* a request has read an expired entry, deleted it, fetched, put and replied
\* MISS
C24_Witness ==
    \E r \in Misses :
        /\ obs[r].ops = <<"get", "delete", "fetch", "put">>
        /\ obs[r].saw = "expired"
        /\ obs[r].reap = "done"
        /\ obs[r].put = "done"

\* the five fields getCachedResponse returns
ReturnedFields(item) ==
    [statusCode |-> item.statusCode, headers |-> item.headers, body |-> item.body,
     expiresAt |-> item.expiresAt, ttl |-> item.ttl]

\* the names of the reply headers the handler sets itself
ProxyHeaderNames ==
    {"X-Cache", "X-Cache-Key", "X-Cache-Expires-In", "X-Target-URL", "X-Response-Time"}
    \cup DOMAIN NoStore \cup DOMAIN CorsAll

\* the headers of a reply that come from the upstream response
UpstreamDerived(reply) ==
    [n \in (DOMAIN reply.headers) \ ProxyHeaderNames |-> reply.headers[n]]

\* C25: what a request gets from the cache is an entry as it was put: its
\* statusCode, headers, body, expiresAt and ttl are those of a cache item built
\* with the request's own ttl from a response fetchFromTarget resolved with,
\* and, when no requests overlap, those of the entry the store holds under
\* the key; when no call fails and no requests overlap, the HIT that follows a
\* MISS has its status, body, key and upstream-derived headers
C25_RoundTrip ==
    /\ \A r \in Reqs :
           req[r].pc = "hit" =>
               /\ \E response \in ResolvedResponses, tick \in 0..now \div TickMs :
                      req[r].cachedResponse
                          = ReturnedFields(CacheItem(response, parseTTL(TtlString(req[r].event)),
                                                     tick * TickMs, tick * TickMs))
               /\ ~run.overlapped =>
                      /\ S3Key(req[r].cacheKey) \in DOMAIN store
                      /\ req[r].cachedResponse
                             = ReturnedFields(JSONParse(store[S3Key(req[r].cacheKey)].Body))
    /\ \A k \in DOMAIN store : JSONParse(JSONStringify(JSONParse(store[k].Body)))
                                   = JSONParse(store[k].Body)
    /\ (Quiet /\ run.started = 2) =>
           \A r \in Misses, q \in Hits :
               req[q].event = req[r].event =>
                   /\ req[q].reply.statusCode = req[r].reply.statusCode
                   /\ req[q].reply.body = req[r].reply.body
                   /\ KeyHeader(q) = KeyHeader(r)
                   /\ UpstreamDerived(req[q].reply) = UpstreamDerived(req[r].reply)

\* a request replied MISS, and the same request made inside the TTL replied
\* HIT with the etag and content-type headers of the MISS
C25_Witness ==
    /\ Quiet
    /\ run.started = 2
    /\ \E r \in Misses, q \in Hits :
           /\ req[q].event = req[r].event
           /\ {"etag", "content-type"} \subseteq DOMAIN UpstreamDerived(req[q].reply)
           /\ UpstreamDerived(req[q].reply) = UpstreamDerived(req[r].reply)
           /\ req[q].reply.body = req[r].reply.body

\* invocation r found its key absent and is about to put, while the store
\* holds under that key the entry of invocation q, which made the same request
\* and found the key absent as well
LatePut(r, q) ==
    /\ r # q
    /\ req[r].pc = "put"
    /\ q \in Done
    /\ req[q].event = req[r].event
    /\ obs[r].saw = "absent" /\ obs[q].saw = "absent"
    /\ obs[q].put = "done"
    /\ S3Key(req[r].cacheKey) \in DOMAIN store
    /\ writer[S3Key(req[r].cacheKey)].by = q

RequestDropNames ==
    {"connection", "upgrade", "transfer-encoding", "proxy-connection",
     "proxy-authenticate", "proxy-authorization", "te", "trailers", "host",
     "x-forwarded-for", "x-forwarded-proto", "x-forwarded-port"}

\* C27: the headers sent to the upstream hold none of the inbound connection,
\* upgrade, transfer-encoding, proxy-connection, proxy-authenticate,
\* proxy-authorization, te, trailers, host and x-forwarded headers, whatever
\* the case of their names; Host is the target's authority, Accept-Encoding
\* is identity, and every other inbound header is forwarded as it came
C27_OutboundHeaders ==
    \A r \in Reqs :
        req[r].pc = "fetch" =>
            LET inbound == req[r].event.headers
                wire == OnTheWire(req[r].sent)
            IN  /\ \A n \in DOMAIN inbound :
                       Lower(n) \in RequestDropNames \ {"host"} => Lower(n) \notin DOMAIN wire
                /\ "host" \in DOMAIN wire
                /\ wire["host"] = UrlHost(TargetUrl(req[r].event))
                /\ "accept-encoding" \in DOMAIN wire
                /\ wire["accept-encoding"] = Identity
                /\ \A n \in DOMAIN inbound :
                       Lower(n) \notin RequestDropNames \cup {"accept-encoding"} =>
                           Lower(n) \in DOMAIN wire /\ wire[Lower(n)] = inbound[n]

\* String.prototype.toLowerCase on the host names of the model
ToLowerCase(str) == [i \in 1..Len(str) |-> IF str[i] = "A" THEN "a" ELSE str[i]]

\* the tenant as the specification defines it
Tenant(headers) == ToLowerCase(Subdomain(headers))

\* C28: the tenant of a request is the lower-cased first label of its Host
\* header, or default when there is no Host; the key of a reply is the key of
\* that tenant, so two requests whose hosts differ in letter case only carry
\* the same key
C28_TenantLowerCased ==
    /\ \A r \in Served :
           LET e == req[r].event
           IN  KeyHeader(r) = generateCacheKey(Tenant(e.headers), TargetUrl(e), EmptyObject,
                                               e.headers, e.httpMethod, e.body, TtlString(e))
    /\ \A r \in Served, q \in Served :
           ({req[r].event, req[q].event} = {BaseEvent, UpperHost}) => KeyHeader(r) = KeyHeader(q)

\* the strings a log line prints
Printed(line) ==
    CASE line.text = "Request:" ->
             LET e == JSONParse(line.data)
             IN  {e.body, e.httpMethod, e.path}
                 \cup {e.headers[n] : n \in DOMAIN e.headers}
                 \cup {e.queryStringParameters[n] : n \in DOMAIN e.queryStringParameters}
      [] line.text = "TTL:" -> {line.data[1]}
      [] line.text \in {"Cache key:", "Fetching from target:"} -> {line.data}
      [] OTHER -> {}

\* what the logs of an invocation must not hold: the body of its request, the
\* value of its Authorization header, and the body of the response it has
\* fetched, read from the cache or replied
Confidential(r) ==
    LET e == req[r].event
    IN  ({e.body} \ {<<>>})
        \cup {e.headers[n] : n \in {m \in DOMAIN e.headers : Lower(m) = "authorization"}}
        \cup (IF req[r].pc = "put" THEN {req[r].response.body} ELSE {})
        \cup (IF req[r].pc = "hit" THEN {req[r].cachedResponse.body} ELSE {})
        \cup (IF r \in Served THEN {req[r].reply.body} ELSE {})

\* C29: no line an invocation logs holds the body of its request, the body of
\* a response, or the value of its Authorization header
C29_NoSecretsLogged ==
    \A r \in Reqs :
        req[r].pc # "idle" =>
            \A i \in 1..Len(obs[r].log) : Printed(obs[r].log[i]) \cap Confidential(r) = {}

\* the seconds of a week
SecondsPerWeek == 7 * 86400

\* the invocations that have parsed a ttl string of the form Nw
WeekTtl ==
    {r \in Reqs : /\ req[r].pc = "parsed"
                  /\ LET t == TtlString(req[r].event)
                     IN  /\ Len(t) >= 2
                         /\ t[Len(t)] = "w"
                         /\ \A i \in 1..(Len(t) - 1) : t[i] \in Digits}

\* C30: for a ttl string Nw parseTTL returns N weeks in seconds: 604800 for
\* 1w and 1209600 for 2w
C30_WeeksUnit ==
    \A r \in WeekTtl :
        LET t == TtlString(req[r].event)
        IN  req[r].ttlSeconds
                = Normal(Times(parseInt(SubSeq(t, 1, Len(t) - 1)), SecondsPerWeek, 0))

\* ---------------------------------------------------------------- C31
\* the steps of request r from the answer of its getObject to its HIT reply
HitStep(r) ==
    \/ req[r].pc = "get" /\ req'[r].pc = "hit"
    \/ req[r].pc = "hit" /\ req'[r].pc = "done"

\* C31: a request answered HIT performs no upstream fetch, no putObject and
\* no deleteObject: the steps that lead to a HIT reply leave the store, and
\* with it the expiresAt of every entry, as they found it, and the only
\* operation the request has awaited when it replies is its getObject
C31_HitLeavesStore ==
    [][\A r \in Reqs :
          HitStep(r) =>
              /\ store' = store
              /\ writer' = writer
              /\ obs'[r].ops = <<"get">>
              /\ req'[r].pc = "done" =>
                     /\ req'[r].reply.headers["X-Cache"] = "HIT"
                     /\ req[r].sent = NoValue
                     /\ req[r].cacheItem = NoValue]_vars

\* C31 witness: after a MISS and two HITs on its entry, the entry is still
\* stored with the expiry its writer gave it
C31_Witness ==
    /\ run.started = 3
    /\ Cardinality(Hits) = 2
    /\ \A r \in Hits : obs[r].ops = <<"get">>
    /\ \E k \in DOMAIN store :
          /\ k \in DOMAIN writer
          /\ \A r \in Hits : S3Key(KeyHeader(r)) = k
          /\ JSONParse(store[k].Body).expiresAt =
                 writer[k].at + (parseTTL(TtlString(writer[k].event)) * MsPerSecond)

\* ---------------------------------------------------------------- C32
\* the entry stored under the key of request r has expired
ExpiredEntry(r) ==
    /\ S3Key(req[r].cacheKey) \in DOMAIN store
    /\ JSONParse(store[S3Key(req[r].cacheKey)].Body).expiresAt <= now

\* C32: lazy reap. A request goes on to a HIT only from an entry whose
\* expiresAt is after the time of the check; a request whose getObject returns
\* an entry that has expired calls deleteObject for its key before anything
\* else, then fetches from the upstream, and, unless that fetch fails, its
\* reply is a MISS
C32_LazyReap ==
    [][\A r \in Reqs :
          /\ (req[r].pc = "get" /\ req'[r].pc = "hit") =>
                 /\ ~ExpiredEntry(r)
                 /\ req'[r].cachedResponse.expiresAt > now
          /\ (req[r].pc = "get" /\ req'[r].pc # "get" /\ ExpiredEntry(r) /\ run' = run) =>
                 /\ req'[r].pc = "delete"
                 /\ obs'[r].saw = "expired"
          /\ (req[r].pc = "delete" /\ req'[r].pc # "delete") =>
                 /\ req'[r].pc = "fetch"
                 /\ obs'[r].ops = <<"get", "delete">>
                 /\ run' = run => S3Key(req[r].cacheKey) \notin DOMAIN store'
          /\ (obs[r].saw = "expired" /\ req[r].pc # "done" /\ req'[r].pc = "done") =>
                 /\ SubSeq(obs'[r].ops, 1, 3) = <<"get", "delete", "fetch">>
                 /\ IF req[r].pc = "fetch"
                    THEN run' # run /\ "X-Cache" \notin DOMAIN req'[r].reply.headers
                    ELSE req'[r].reply.headers["X-Cache"] = "MISS"]_vars

\* C32 witness: a request found the entry of an earlier one at the very
\* millisecond of its expiry, has deleted it, fetched and replied MISS
C32_Witness ==
    \E r \in Misses :
        /\ obs[r].saw = "expired"
        /\ obs[r].reap = "done"
        /\ obs[r].ops = <<"get", "delete", "fetch", "put">>
        /\ S3Key(KeyHeader(r)) \in DOMAIN writer
        /\ writer[S3Key(KeyHeader(r))].by = r
        /\ now = parseTTL(TtlString(req[r].event)) * MsPerSecond

\* ---------------------------------------------------------------- C33
\* the keys whose entry the step removes from the store
Removed == DOMAIN store \ DOMAIN store'

\* C33: in every interleaving of requests for one key, a step that removes an
\* entry from the store removes an entry that has expired: no entry whose
\* expiresAt is still in the future is deleted
C33_OnlyExpiredDeleted ==
    [][\A k \in Removed : JSONParse(store[k].Body).expiresAt <= now]_vars

\* ---------------------------------------------------------------- C35
\* C35: the string that is hashed is an injective function of tenant, method,
\* target url, body and ttl string: two served requests that differ in one of
\* the five fields carry different X-Cache-Key values, and no request is
\* answered from the entry of a request that differs from it in a field
C35_KeyInjective ==
    /\ \A r, q \in Served :
          KeyFields(req[r].event) # KeyFields(req[q].event) => KeyHeader(r) # KeyHeader(q)
    /\ \A r \in Hits : KeyFields(obs[r].readFrom) = KeyFields(req[r].event)

\* ---------------------------------------------------------------- C34
\* the number of seconds in the X-Cache-Expires-In header of a reply
ExpiresIn(reply) == reply.headers["X-Cache-Expires-In"][1]

\* C34: the X-Cache-Expires-In of a HIT is the whole seconds from the reply to
\* the expiresAt of the entry, and 0 when that is negative; it is not above
\* the ttl of the entry, not above the TTL parsed from the ttl string of the
\* request that is answered, and not above that of an earlier HIT on the same
\* entry; the X-Cache-Expires-In of a MISS is the TTL parsed from the request
C34_ExpiresIn ==
    [][\A r \in Reqs :
          /\ (req[r].pc = "hit" /\ req'[r].pc = "done") =>
                 LET entry == req[r].cachedResponse
                     value == ExpiresIn(req'[r].reply)
                 IN  /\ value = Max(0, (entry.expiresAt - now) \div MsPerSecond)
                     /\ value >= 0
                     /\ value <= entry.ttl
                     /\ value <= parseTTL(TtlString(req[r].event))
                     /\ \A q \in Hits :
                           (KeyHeader(q) = req[r].cacheKey /\ obs[q].entry = obs[r].entry)
                               => value <= ExpiresIn(req[q].reply)
          /\ (req[r].pc = "put" /\ req'[r].pc = "done") =>
                 ExpiresIn(req'[r].reply) = parseTTL(TtlString(req[r].event))]_vars

\* ---------------------------------------------------------------- C36
\* C36: every invocation of the handler returns a reply in the end, whatever
\* the store and the upstream do: an invocation that has started and not yet
\* replied leads to one that has replied
C36_AlwaysReplies ==
    \A r \in Reqs : (req[r].pc \notin {"idle", "done"}) ~> (req[r].pc = "done")

\* ---------------------------------------------------------------- C37
\* how many times operation op has settled in ops
Count(ops, op) == Cardinality({i \in DOMAIN ops : ops[i] = op})

\* the invocations whose upstream fetch has had its outcome
Fetched == {r \in Reqs : Count(obs[r].ops, "fetch") > 0}

\* C37: an invocation performs at most one getObject, one deleteObject, one
\* upstream fetch and one putObject; its fetch has one outcome, a response
\* that is put and returned as a MISS or an error that is returned as a 500
\* reply; so the invocations in flight or just answered have caused no more
\* fetches and no more puts than there are of them
C37_NoRetry ==
    /\ \A r \in Reqs :
          \A op \in {"get", "delete", "fetch", "put"} : Count(obs[r].ops, op) <= 1
    /\ \A r \in Fetched :
          /\ req[r].pc \in {"put", "done"}
          /\ req[r].pc = "put" => req[r].response # NoValue /\ Count(obs[r].ops, "put") = 0
          /\ req[r].pc = "done" =>
                 (r \in Misses) # (\E message \in UpstreamFailures : r \in FetchFailed(message))
          /\ r \in Misses <=> Count(obs[r].ops, "put") = 1
    /\ \A r \in Reqs \ Fetched : Count(obs[r].ops, "put") = 0

\* C37 witness: two requests for one key overlapped, each fetched once and
\* put once
C37_Witness ==
    /\ run.overlapped
    /\ \E r, q \in Misses :
          /\ r # q
          /\ KeyHeader(r) = KeyHeader(q)
          /\ obs[r].ops = <<"get", "fetch", "put">>
          /\ obs[q].ops = <<"get", "fetch", "put">>
          /\ obs[r].saw = "absent"
          /\ obs[q].saw = "absent"

\* ---------------------------------------------------------------- C38
\* the names of the headers the handler itself sets on a HIT or MISS reply
ProxyIssued ==
    {"X-Cache", "X-Cache-Key", "X-Cache-Expires-In"} \cup DOMAIN NoStore \cup DOMAIN CorsAll

\* C38: the headers the proxy sets on a reply are the proxy's alone: when
\* header names are compared without regard to case, no HIT or MISS reply
\* carries, next to a header of the proxy, a second header of that name
\* taken over from the upstream
C38_NoUpstreamDuplicate ==
    \A r \in Served :
        \A n \in DOMAIN req[r].reply.headers :
            Lower(n) \in {Lower(p) : p \in ProxyIssued} => n \in ProxyIssued

\* ---------------------------------------------------------------- C39
\* the cache items a request with event e can build at time clock
ItemsOf(e, clock) ==
    {CacheItem(response, parseTTL(TtlString(e)), clock, clock) : response \in ResolvedResponses}

\* C39: in every interleaving, what the store holds under a key is, as a
\* whole, the text of the cache item one invocation built, and the cache key
\* of that invocation is the one the object is stored under: it is no mixture
\* of the items of two invocations and no part of an item
C39_WholeEntries ==
    \A k \in DOMAIN store :
        /\ k \in DOMAIN writer
        /\ S3Key(CacheKeyOf(writer[k].event)) = k
        /\ JSONParse(store[k].Body) \in ItemsOf(writer[k].event, writer[k].at)
        /\ store[k].Body = JSONStringify(JSONParse(store[k].Body))

\* C39 witness: two overlapping requests for one key fetched different
\* responses and both put; the object is the item of the one that put last,
\* status and body alike
C39_Witness ==
    \E r, q \in Misses :
        /\ r # q
        /\ run.overlapped
        /\ KeyHeader(r) = KeyHeader(q)
        /\ obs[r].put = "done" /\ obs[q].put = "done"
        /\ obs[r].saw = "absent" /\ obs[q].saw = "absent"
        /\ req[r].reply.statusCode # req[q].reply.statusCode
        /\ S3Key(KeyHeader(r)) \in DOMAIN store
        /\ writer[S3Key(KeyHeader(r))].by = r
        /\ JSONParse(store[S3Key(KeyHeader(r))].Body).statusCode = req[r].reply.statusCode
        /\ JSONParse(store[S3Key(KeyHeader(r))].Body).body = req[r].reply.body

====
